---- MODULE Spec2Model ----
(***************************************************************************)
(* The two title bar custom elements of the repository, <title-bar>        *)
(* (class TitleBar) and <title-bar-types> (class TitleBarTypes), as a      *)
(* state machine: the element's fields, the dark-mode attribute, the       *)
(* update requested from the LitElement base class, and the DOM the last   *)
(* render pass produced.                                                   *)
(***************************************************************************)
EXTENDS Integers, Sequences, FiniteSets

\* ------------------------------------------------------------------ bounds
\* External operations (assignments, attribute changes, in-place changes of
\* the bar object) in one run.
MaxSteps == 3
\* Object identities available for bar objects.
MaxRefs == 2

\* ------------------------------------------------------- JavaScript values
\* A JavaScript value: its type tag and the payload of that type (s for a
\* string and the name of a function, n for a number and the identity of an
\* object, b for a boolean).
JSValue(t, s, n, b) == [t |-> t, s |-> s, n |-> n, b |-> b]
Undefined == JSValue("undefined", "", 0, FALSE)
Null == JSValue("null", "", 0, FALSE)
Bool(b) == JSValue("boolean", "", 0, b)
Num(n) == JSValue("number", "", n, FALSE)
Str(s) == JSValue("string", s, 0, FALSE)
Fn(name) == JSValue("function", name, 0, FALSE)
Obj(ref) == JSValue("object", "", ref, FALSE)

Digit(d) ==
  CASE d = 0 -> "0" [] d = 1 -> "1" [] d = 2 -> "2" [] d = 3 -> "3"
    [] d = 4 -> "4" [] d = 5 -> "5" [] d = 6 -> "6" [] d = 7 -> "7"
    [] d = 8 -> "8" [] d = 9 -> "9"

RECURSIVE NatToString(_)
NatToString(n) ==
  IF n < 10 THEN Digit(n) ELSE NatToString(n \div 10) \o Digit(n % 10)

\* Function.prototype.toString: the source text of a formatter the sources
\* give. A TLA+ string cannot hold the backtick of a template literal: it is
\* written ' here.
FunctionSource(name) ==
  CASE name = "forReal" -> "value => '${value} for real!'"
    [] name = "template" -> "value => '${value}'"

\* String(v), the conversion a template literal `${v}` applies.
ToString(v) ==
  CASE v.t = "string" -> v.s
    [] v.t = "number" -> IF v.n < 0 THEN "-" \o NatToString(0 - v.n)
                                    ELSE NatToString(v.n)
    [] v.t = "boolean" -> IF v.b THEN "true" ELSE "false"
    [] v.t = "undefined" -> "undefined"
    [] v.t = "null" -> "null"
    [] v.t = "object" -> "[object Object]"
    [] v.t = "function" -> FunctionSource(v.s)

\* The truthiness test of `if (v)` and `v ? a : b`.
Truthy(v) ==
  CASE v.t = "boolean" -> v.b
    [] v.t = "number" -> v.n # 0
    [] v.t = "string" -> v.s # ""
    [] v.t \in {"undefined", "null"} -> FALSE
    [] v.t \in {"object", "function"} -> TRUE

\* The formatter functions the sources give: `forReal` is
\* value => `${value} for real!`, `template` is value => `${value}`.
Formatters == {Fn("forReal"), Fn("template")}

\* The TypeError thrown by a read of a property of null or undefined and by
\* a call of a value that is no function: the outcome of an expression that
\* throws it.
TypeError == JSValue("TypeError", "TypeError", 0, FALSE)

\* f(value) for the value f of formatter: the call throws when f is no
\* function.
CallFormatter(f, value) ==
  CASE f.t # "function" -> TypeError
    [] f.t = "function" /\ f.s = "forReal" ->
         Str(ToString(value) \o " for real!")
    [] f.t = "function" /\ f.s = "template" -> Str(ToString(value))

\* ---------------------------------------------------------------- elements
Variants == {"title-bar", "title-bar-types"}

\* A bar object's own fields; an absent field reads as undefined.
BarObject(x, y, t) == [x |-> x, y |-> y, title |-> t]
NoObject == BarObject(Undefined, Undefined, Undefined)

TitleBar_properties_noBar ==
  [title |-> [type |-> "String", reflect |-> FALSE, attribute |-> "title"],
   darkMode |-> [type |-> "Boolean", reflect |-> TRUE, attribute |-> "dark-mode"]]

TitleBar_properties_noReflect ==
  [title |-> [type |-> "String", reflect |-> FALSE, attribute |-> "title"],
   darkMode |-> [type |-> "Boolean", reflect |-> FALSE, attribute |-> "dark-mode"],
   bar |-> [type |-> "Object", reflect |-> FALSE, attribute |-> "bar"]]

TitleBar_properties_withFormatter ==
  [title |-> [type |-> "String", reflect |-> FALSE, attribute |-> "title"],
   darkMode |-> [type |-> "Boolean", reflect |-> TRUE, attribute |-> "dark-mode"],
   bar |-> [type |-> "Object", reflect |-> FALSE, attribute |-> "bar"],
   formatter |-> [type |-> "Object", reflect |-> FALSE, attribute |-> "formatter"]]

\* static get properties() of TitleBar.
TitleBar_properties ==
  [title |-> [type |-> "String", reflect |-> FALSE, attribute |-> "title"],
   darkMode |-> [type |-> "Boolean", reflect |-> TRUE, attribute |-> "dark-mode"],
   bar |-> [type |-> "Object", reflect |-> FALSE, attribute |-> "bar"]]

\* static get properties() of TitleBarTypes.
TitleBarTypes_properties ==
  [title |-> [type |-> "String", reflect |-> FALSE, attribute |-> "title"],
   darkMode |-> [type |-> "Boolean", reflect |-> TRUE, attribute |-> "dark-mode"],
   bar |-> [type |-> "Object", reflect |-> FALSE, attribute |-> "bar"]]

properties(v) ==
  IF v = "title-bar" THEN TitleBar_properties ELSE TitleBarTypes_properties

TitleBar_constructor_dark ==
  [title |-> Str("You are awesome"),
   darkMode |-> Bool(TRUE),
   bar |-> BarObject(Num(0), Num(0), Str("I am dot")),
   formatter |-> Null]

\* The values the constructor of TitleBar assigns.
TitleBar_constructor ==
  [title |-> Str("You are awesome"),
   darkMode |-> Bool(FALSE),
   bar |-> BarObject(Num(0), Num(0), Str("I am dot")),
   formatter |-> Null]

\* The values the constructor of TitleBarTypes assigns.
TitleBarTypes_constructor ==
  [title |-> Str("You are awesome"),
   darkMode |-> Bool(FALSE),
   bar |-> BarObject(Num(0), Num(0), Str("I am dot")),
   formatter |-> Null]

constructor(v) ==
  IF v = "title-bar" THEN TitleBar_constructor ELSE TitleBarTypes_constructor

\* ------------------------------------------------------------------ format
\* The optional second argument of format: given is FALSE when the argument
\* is omitted, and a field the record does not have reads as undefined.
Options(given, prefix, suffix) ==
  [given |-> given, prefix |-> prefix, suffix |-> suffix]
NoOptions == Options(FALSE, Undefined, Undefined)

\* The receiver of a method: the element's fields, and the fields of the
\* object its bar refers to.
ThisOf(t, d, b, o, f) ==
  [title |-> t, darkMode |-> d, bar |-> b, barObj |-> o, formatter |-> f]

TitleBarTypes_format_noSuffix(this, value, options) ==
  LET opts == IF options.given THEN options
              ELSE Options(TRUE, Str(""), Undefined)
      formattedValue == IF Truthy(this.formatter)
                        THEN CallFormatter(this.formatter, value)
                        ELSE value
  IN IF formattedValue = TypeError THEN TypeError
     ELSE Str(ToString(opts.prefix) \o ToString(formattedValue))

TitleBarTypes_format_noDefault(this, value, options) ==
  LET prefix == options.prefix
      suffix == IF options.suffix = Undefined THEN Str("") ELSE options.suffix
      formattedValue == IF Truthy(this.formatter)
                        THEN CallFormatter(this.formatter, value)
                        ELSE value
  IN IF formattedValue = TypeError THEN TypeError
     ELSE Str(ToString(prefix) \o ToString(formattedValue)
                \o ToString(suffix))

TitleBarTypes_format_prefixDefault(this, value, options) ==
  LET prefix == IF options.prefix = Undefined THEN Str("") ELSE options.prefix
      suffix == IF options.suffix = Undefined THEN Str("") ELSE options.suffix
      formattedValue == IF Truthy(this.formatter)
                        THEN CallFormatter(this.formatter, value)
                        ELSE value
  IN IF formattedValue = TypeError THEN TypeError
     ELSE Str(ToString(prefix) \o ToString(formattedValue)
                \o ToString(suffix))

\* format(value, { prefix, suffix = '' } = { prefix: '' }) of TitleBarTypes;
\* a throw of the formatter's call leaves format.
TitleBarTypes_format(this, value, options) ==
  LET opts == IF options.given THEN options
              ELSE Options(TRUE, Str(""), Undefined)
      prefix == opts.prefix
      suffix == IF opts.suffix = Undefined THEN Str("") ELSE opts.suffix
      formattedValue == IF Truthy(this.formatter)
                        THEN CallFormatter(this.formatter, value)
                        ELSE value
  IN IF formattedValue = TypeError THEN TypeError
     ELSE Str(ToString(prefix) \o ToString(formattedValue)
                \o ToString(suffix))

\* format(value) of TitleBar; a second argument is ignored.
TitleBar_format(this, value, options) ==
  IF Truthy(this.formatter) THEN CallFormatter(this.formatter, value)
  ELSE value

format(v, this, value, options) ==
  IF v = "title-bar" THEN TitleBar_format(this, value, options)
  ELSE TitleBarTypes_format(this, value, options)

\* ------------------------------------------------------------------ render
\* this.bar.<name>: a field of the bar object, undefined on a primitive;
\* on null and undefined the read throws.
BarField(this, name) ==
  CASE this.bar.t = "object" -> this.barObj[name]
    [] this.bar.t \in {"null", "undefined"} -> TypeError
    [] OTHER -> Undefined

\* The text a child expression ${v} of the template leaves in the DOM:
\* nothing for null and undefined, String(v) otherwise.
NodeText(v) == IF v.t \in {"undefined", "null"} THEN "" ELSE ToString(v)

\* The value an attribute expression name=${v} of the template leaves in
\* the DOM.
AttributeText(v) == ToString(v)

\* The DOM a render pass produces: the text of the <h1>, and the style and
\* title attributes of the <div class="dot">.
Dom(h1, style, t) == [h1 |-> h1, style |-> style, title |-> t]
NoDom == Dom("", "", "")

TitleBarTypes_render_staleTitle(this) ==
  IF \/ TitleBarTypes_format(this, TitleBarTypes_constructor.title,
                          Options(TRUE, Str(""), Undefined)) = TypeError
     \/ BarField(this, "x") = TypeError
  THEN TypeError
  ELSE
  Dom(NodeText(TitleBarTypes_format(this, TitleBarTypes_constructor.title,
                                    Options(TRUE, Str(""), Undefined))),
      "left: " \o ToString(BarField(this, "x")) \o "px; top: "
        \o ToString(BarField(this, "y")),
      AttributeText(IF Truthy(BarField(this, "title"))
                    THEN BarField(this, "title") ELSE Str("")))

TitleBarTypes_render_topPx(this) ==
  IF \/ TitleBarTypes_format(this, this.title,
                          Options(TRUE, Str(""), Undefined)) = TypeError
     \/ BarField(this, "x") = TypeError
  THEN TypeError
  ELSE
  Dom(NodeText(TitleBarTypes_format(this, this.title,
                                    Options(TRUE, Str(""), Undefined))),
      "left: " \o ToString(BarField(this, "x")) \o "px; top: "
        \o ToString(BarField(this, "y")) \o "px",
      AttributeText(IF Truthy(BarField(this, "title"))
                    THEN BarField(this, "title") ELSE Str("")))

\* render() of TitleBarTypes: the template's values are computed in order;
\* the call of format throws when formatter is truthy and no function, and
\* the first read of this.bar.x throws when bar is null or undefined.
TitleBarTypes_render(this) ==
  IF \/ TitleBarTypes_format(this, this.title,
                          Options(TRUE, Str(""), Undefined)) = TypeError
     \/ BarField(this, "x") = TypeError
  THEN TypeError
  ELSE
  Dom(NodeText(TitleBarTypes_format(this, this.title,
                                    Options(TRUE, Str(""), Undefined))),
      "left: " \o ToString(BarField(this, "x")) \o "px; top: "
        \o ToString(BarField(this, "y")),
      AttributeText(IF Truthy(BarField(this, "title"))
                    THEN BarField(this, "title") ELSE Str("")))

\* render() of TitleBar.
TitleBar_render(this) ==
  IF \/ TitleBar_format(this, this.title, NoOptions) = TypeError
     \/ BarField(this, "x") = TypeError
  THEN TypeError
  ELSE
  Dom(NodeText(TitleBar_format(this, this.title, NoOptions)),
      "left: " \o ToString(BarField(this, "x")) \o "px; top: "
        \o ToString(BarField(this, "y")),
      AttributeText(BarField(this, "title")))

render(v, this) ==
  IF v = "title-bar" THEN TitleBar_render(this) ELSE TitleBarTypes_render(this)

\* ------------------------------------------------------------------- state
VARIABLES
  variant,             \* which of the two elements this one is
  title, darkMode, bar, formatter,   \* the element's fields
  barObj,              \* the fields of the object `bar` refers to
  attr,                \* the dark-mode attribute: null when absent
  connected,           \* the element is in a document
  hasRequestedUpdate,  \* an update is requested and not yet performed
  queue,               \* update microtasks enqueued
  reflecting,          \* properties to reflect to attributes on update
  dom,                 \* what the last render pass left in the shadow root
  renderCount,         \* render passes so far
  steps,               \* external operations so far
  batch,               \* changes of title, darkMode, bar since the last render
  burst,               \* render passes since the last such change
  lastBatch,           \* the changes the last render pass covered
  lastCall             \* the call of format that led to this state, if any

vars == <<variant, title, darkMode, bar, formatter, barObj, attr, connected,
          hasRequestedUpdate, queue, reflecting, dom, renderCount, steps,
          batch, burst, lastBatch, lastCall>>

This == ThisOf(title, darkMode, bar, barObj, formatter)

Call(done, value, options, result) ==
  [done |-> done, value |-> value, options |-> options, result |-> result]
NoCall == Call(FALSE, Undefined, NoOptions, Undefined)

\* ------------------------------------------------------------------ inputs
TitleValues == {Str("You are awesome"), Str("Hi"), Bool(TRUE), Null}
DarkModeValues == {Bool(TRUE), Bool(FALSE), Str("foo")}
BarLiterals ==
  {BarObject(Num(0), Num(0), Str("I am dot")),
   BarObject(Num(1), Num(2), Undefined),
   BarObject(Num(12), Num(0), Str(""))}
MutatedX == {3}
BarPrimitives == {Bool(TRUE), Null}
FormatterValues == {Null, Bool(FALSE), Bool(TRUE)} \cup Formatters
AttributeValues == {Str("false")}
FormatValues == {Str("foo"), Num(12), Fn("forReal")}
FormatOptions ==
  {NoOptions} \cup
  {Options(TRUE, p, s) : p \in {Undefined, Str(""), Str("...")},
                         s \in {Undefined, Str("!")}}

\* An identity for a newly created object: one the element does not hold.
NewRef == CHOOSE r \in 1..MaxRefs : Obj(r) # bar

\* ------------------------------------------------------------ LitElement
notEqual_always(value, old) == TRUE

\* The default hasChanged of a declared property.
notEqual(value, old) == value # old

fromAttribute_asString(value) == value

\* Boolean's converter between the property and its attribute.
fromAttribute(value) == Bool(value # Null)
toAttribute(value) == IF Truthy(value) THEN Str("") ELSE Null

Store_converted(name, value) ==
  CASE name = "title" -> Str(ToString(value))
    [] name = "darkMode" -> Bool(Truthy(value))
    [] OTHER -> value

\* What an assignment el.<name> = value leaves in the field: the value as
\* given, whatever type the property is declared with.
Store(name, value) == value

\* The accessor of a declared property requests an update when the value
\* changed; a field that is not declared is a plain field.
Requests(name, value, old) ==
  /\ name \in DOMAIN properties(variant)
  /\ notEqual(value, old)

\* requestUpdate(name, old): at most one update is enqueued at a time, and a
\* changed reflected property is noted unless the change came from its
\* attribute.
RequestUpdate(name, value, old, fromAttr) ==
  LET req == Requests(name, value, old) IN
  /\ hasRequestedUpdate' = (hasRequestedUpdate \/ req)
  /\ queue' = IF req /\ ~hasRequestedUpdate THEN queue + 1 ELSE queue
  /\ reflecting' = IF req /\ ~fromAttr /\ properties(variant)[name].reflect
                   THEN reflecting \cup {name} ELSE reflecting

\* What a changed field does to the history of the run.
Changed(name, value, old) ==
  /\ name \in {"title", "darkMode", "bar"}
  /\ value # old

Count(name, value, old) ==
  /\ steps' = steps + 1
  /\ batch' = IF Changed(name, value, old) THEN batch + 1 ELSE batch
  /\ burst' = IF Changed(name, value, old) THEN 0 ELSE burst
  /\ lastCall' = NoCall
  /\ UNCHANGED lastBatch

\* -------------------------------------------------------------------- Init
\* The element after `new`: the base class has requested the first update,
\* and the constructor has assigned its four fields through their accessors.
Init ==
  /\ variant \in Variants
  /\ title = constructor(variant).title
  /\ darkMode = constructor(variant).darkMode
  /\ bar = Obj(1)
  /\ barObj = constructor(variant).bar
  /\ formatter = constructor(variant).formatter
  /\ attr = Null
  /\ connected = FALSE
  /\ hasRequestedUpdate = TRUE
  /\ queue = 1
  /\ reflecting = {name \in DOMAIN properties(variant) :
                     /\ properties(variant)[name].reflect
                     /\ notEqual(constructor(variant)[name], Undefined)}
  /\ dom = NoDom
  /\ renderCount = 0
  /\ steps = 0
  /\ batch = Cardinality({"title", "darkMode", "bar"})
  /\ burst = 0
  /\ lastBatch = 0
  /\ lastCall = NoCall

\* ----------------------------------------------------------------- actions
\* The host inserts the element into a document, which lets updates run.
connectedCallback ==
  /\ ~connected
  /\ connected' = TRUE
  /\ lastCall' = NoCall
  /\ UNCHANGED <<variant, title, darkMode, bar, formatter, barObj, attr,
                 hasRequestedUpdate, queue, reflecting, dom, renderCount,
                 steps, batch, burst, lastBatch>>

\* el.title = value
AssignTitle(value) ==
  /\ steps < MaxSteps
  /\ title' = Store("title", value)
  /\ RequestUpdate("title", Store("title", value), title, FALSE)
  /\ Count("title", Store("title", value), title)
  /\ UNCHANGED <<variant, darkMode, bar, formatter, barObj, attr, connected,
                 dom, renderCount>>

\* el.darkMode = value
AssignDarkMode(value) ==
  /\ steps < MaxSteps
  /\ darkMode' = Store("darkMode", value)
  /\ RequestUpdate("darkMode", Store("darkMode", value), darkMode, FALSE)
  /\ Count("darkMode", Store("darkMode", value), darkMode)
  /\ UNCHANGED <<variant, title, bar, formatter, barObj, attr, connected,
                 dom, renderCount>>

\* el.bar = { x, y, title }: a new object
AssignBar(object) ==
  /\ steps < MaxSteps
  /\ bar' = Store("bar", Obj(NewRef))
  /\ barObj' = object
  /\ RequestUpdate("bar", Store("bar", Obj(NewRef)), bar, FALSE)
  /\ Count("bar", Store("bar", Obj(NewRef)), bar)
  /\ UNCHANGED <<variant, title, darkMode, formatter, attr, connected, dom,
                 renderCount>>

\* el.bar = el.bar: the object the element already holds
AssignBarSame ==
  /\ steps < MaxSteps
  /\ bar' = Store("bar", bar)
  /\ barObj' = barObj
  /\ RequestUpdate("bar", Store("bar", bar), bar, FALSE)
  /\ Count("bar", Store("bar", bar), bar)
  /\ UNCHANGED <<variant, title, darkMode, formatter, attr, connected, dom,
                 renderCount>>

\* el.bar = value for a value that is no object
AssignBarPrimitive(value) ==
  /\ steps < MaxSteps
  /\ bar' = Store("bar", value)
  /\ barObj' = NoObject
  /\ RequestUpdate("bar", Store("bar", value), bar, FALSE)
  /\ Count("bar", Store("bar", value), bar)
  /\ UNCHANGED <<variant, title, darkMode, formatter, attr, connected, dom,
                 renderCount>>

\* el.formatter = value
AssignFormatter(value) ==
  /\ steps < MaxSteps
  /\ formatter' = Store("formatter", value)
  /\ RequestUpdate("formatter", Store("formatter", value), formatter, FALSE)
  /\ Count("formatter", Store("formatter", value), formatter)
  /\ UNCHANGED <<variant, title, darkMode, bar, barObj, attr, connected, dom,
                 renderCount>>

\* el.bar.x = x: a change of the bar object in place
MutateBar(x) ==
  /\ steps < MaxSteps
  /\ bar.t = "object"
  /\ barObj' = [barObj EXCEPT !.x = Num(x)]
  /\ Count("bar.x", Num(x), barObj.x)
  /\ UNCHANGED <<variant, title, darkMode, bar, formatter, attr, connected,
                 hasRequestedUpdate, queue, reflecting, dom, renderCount>>

\* attributeChangedCallback('dark-mode', old, value): the property follows
\* the attribute when the attribute's value changed.
AttributeChanged(old, value) ==
  IF old # value
  THEN /\ darkMode' = fromAttribute(value)
       /\ RequestUpdate("darkMode", fromAttribute(value), darkMode, TRUE)
       /\ Count("darkMode", fromAttribute(value), darkMode)
  ELSE /\ darkMode' = darkMode
       /\ RequestUpdate("darkMode", darkMode, darkMode, TRUE)
       /\ Count("darkMode", darkMode, darkMode)

\* el.setAttribute('dark-mode', value) by the host
SetAttribute(value) ==
  /\ steps < MaxSteps
  /\ attr' = value
  /\ AttributeChanged(attr, value)
  /\ UNCHANGED <<variant, title, bar, formatter, barObj, connected, dom,
                 renderCount>>

\* el.removeAttribute('dark-mode') by the host, the attribute being present
RemoveAttribute ==
  /\ steps < MaxSteps
  /\ attr # Null
  /\ attr' = Null
  /\ AttributeChanged(attr, Null)
  /\ UNCHANGED <<variant, title, bar, formatter, barObj, connected, dom,
                 renderCount>>

\* render() throws: the update ends there and the DOM stays as it was.
Throws == render(variant, This) = TypeError

\* Whether the properties noted for reflection are written to their
\* attributes in an update whose render() throws: update() of the lit-element
\* versions the import admits reflects before it calls render() (2.0 to 2.2)
\* or after it (from 2.3 on); an update that renders reflects in both.
Reflects == IF Throws THEN BOOLEAN ELSE {TRUE}

performUpdate_renderAssigns ==
  /\ connected
  /\ queue > 0
  /\ \E reflects \in Reflects :
       /\ attr' = IF reflects /\ "darkMode" \in reflecting
                  THEN toAttribute(darkMode) ELSE attr
       /\ reflecting' = IF reflects THEN {} ELSE reflecting
  /\ dom' = IF Throws THEN dom ELSE render(variant, This)
  /\ title' = IF Throws THEN title ELSE Str(render(variant, This).h1)
  /\ hasRequestedUpdate' = (title' # title)
  /\ queue' = IF title' # title THEN queue ELSE queue - 1
  /\ renderCount' = renderCount + 1
  /\ batch' = 0
  /\ burst' = burst + 1
  /\ lastBatch' = batch
  /\ lastCall' = NoCall
  /\ UNCHANGED <<variant, darkMode, bar, formatter, barObj, connected, steps>>

\* The update microtask: reflects the noted properties to their attributes,
\* renders, and marks the element updated; when render() throws, the DOM is
\* left as it was and the element is marked updated all the same.
performUpdate ==
  /\ connected
  /\ queue > 0
  /\ \E reflects \in Reflects :
       /\ attr' = IF reflects /\ "darkMode" \in reflecting
                  THEN toAttribute(darkMode) ELSE attr
       /\ reflecting' = IF reflects THEN {} ELSE reflecting
  /\ dom' = IF Throws THEN dom ELSE render(variant, This)
  /\ hasRequestedUpdate' = FALSE
  /\ queue' = queue - 1
  /\ renderCount' = renderCount + 1
  /\ batch' = 0
  /\ burst' = burst + 1
  /\ lastBatch' = batch
  /\ lastCall' = NoCall
  /\ UNCHANGED <<variant, title, darkMode, bar, formatter, barObj, connected,
                 steps>>

CallFormat_keepsResult(value, options) ==
  /\ lastCall' = Call(TRUE, value, options,
                       format(variant, This, value, options))
  /\ title' = format(variant, This, value, options)
  /\ UNCHANGED <<variant, darkMode, bar, formatter, barObj, attr,
                 connected, hasRequestedUpdate, queue, reflecting, dom,
                 renderCount, steps, batch, burst, lastBatch>>

\* el.format(value) and el.format(value, options) by the host
CallFormat(value, options) ==
  /\ lastCall' = Call(TRUE, value, options,
                       format(variant, This, value, options))
  /\ UNCHANGED <<variant, title, darkMode, bar, formatter, barObj, attr,
                 connected, hasRequestedUpdate, queue, reflecting, dom,
                 renderCount, steps, batch, burst, lastBatch>>

\* The operations on the element's state.
Operate ==
  \/ connectedCallback
  \/ \E value \in TitleValues : AssignTitle(value)
  \/ \E value \in DarkModeValues : AssignDarkMode(value)
  \/ \E object \in BarLiterals : AssignBar(object)
  \/ AssignBarSame
  \/ \E value \in BarPrimitives : AssignBarPrimitive(value)
  \/ \E value \in FormatterValues : AssignFormatter(value)
  \/ \E x \in MutatedX : MutateBar(x)
  \/ \E value \in AttributeValues : SetAttribute(value)
  \/ RemoveAttribute
  \/ performUpdate

Next ==
  \/ Operate
  \/ \E value \in FormatValues, options \in FormatOptions :
       CallFormat(value, options)

Spec == Init /\ [][Next]_vars

\* Updates are microtasks: a requested update of a connected element runs.
\* Calls of format, which change nothing of the element, are left out.
FairSpec == Init /\ [][Operate]_vars /\ WF_vars(performUpdate)

\* The element's operations alone, without calls of format and without
\* fairness.
ElementSpec == Init /\ [][Operate]_vars

\* Calls of format among the operations format depends on: format reads
\* this.formatter and its arguments, and nothing of darkMode, bar or the
\* attribute; title is what render hands to it.
FormatOperate ==
  \/ connectedCallback
  \/ \E value \in TitleValues : AssignTitle(value)
  \/ \E value \in FormatterValues : AssignFormatter(value)
  \/ performUpdate
  \/ \E value \in FormatValues, options \in FormatOptions :
       CallFormat(value, options)

FormatSpec == Init /\ [][FormatOperate]_vars

\* ------------------------------------------------------------ properties
\* The heading a render pass is to show for the current title and formatter:
\* the title's string form, with the formatter's addition; title-bar, which
\* hands the title itself to the template when no formatter is called,
\* shows nothing for null and undefined.
HeadingText ==
  IF variant = "title-bar" /\ ~Truthy(formatter)
     /\ title.t \in {"null", "undefined"}
  THEN ""
  ELSE ToString(title)
         \o (IF formatter = Fn("forReal") THEN " for real!" ELSE "")

\* The position a render pass is to show for the current bar.
CoordText(name) ==
  IF bar.t = "object" THEN ToString(barObj[name]) ELSE "undefined"
StyleText == "left: " \o CoordText("x") \o "px; top: " \o CoordText("y")

\* One of title, darkMode, bar changes in this step.
ObservedChange == title' # title \/ darkMode' # darkMode \/ bar' # bar

\* C1: immediately after construction, before any external operation, the
\* element of either variant holds title "You are awesome", darkMode false,
\* bar {x: 0, y: 0, title: "I am dot"} and formatter null.
C1_ConstructionDefaults ==
  steps = 0 =>
    /\ title = Str("You are awesome")
    /\ darkMode = Bool(FALSE)
    /\ bar.t = "object"
    /\ barObj = BarObject(Num(0), Num(0), Str("I am dot"))
    /\ formatter = Null

\* A connected element of each variant that has rendered and was never
\* assigned to.
C1_Witness ==
  /\ steps = 0
  /\ connected
  /\ renderCount = 1
  /\ variant = "title-bar"

\* C2: a step that changes the value of title, darkMode or bar leaves an
\* update requested, and an update is requested by no other step.
C2_RenderScheduledOnObservedChange ==
  [][/\ ObservedChange => (hasRequestedUpdate' /\ queue' >= 1)
     /\ (queue' > queue \/ (hasRequestedUpdate' /\ ~hasRequestedUpdate))
          => ObservedChange]_vars

\* After a render that showed the constructor's bar, a new bar object was
\* assigned, nothing else changed, and an update is requested.
C2_Witness ==
  /\ renderCount >= 1
  /\ dom.style = "left: 0px; top: 0"
  /\ bar = Obj(2)
  /\ barObj.x = Num(1)
  /\ batch = 1
  /\ hasRequestedUpdate
  /\ queue = 1

\* C3: a step that changes formatter leaves the render count and the
\* requested update as they were, and while no update is requested a step that
\* changes none of title, darkMode, bar neither renders nor requests one.
C3_FormatterSchedulesNoRender ==
  [][/\ formatter' # formatter =>
          /\ renderCount' = renderCount
          /\ queue' = queue
          /\ hasRequestedUpdate' = hasRequestedUpdate
     /\ (~hasRequestedUpdate /\ ~ObservedChange) =>
          /\ renderCount' = renderCount
          /\ queue' = queue
          /\ ~hasRequestedUpdate']_vars

\* The formatter was assigned after the last render (the heading is still the
\* unformatted title) and no update is requested.
C3_Witness ==
  /\ renderCount >= 1
  /\ formatter = Fn("forReal")
  /\ title = Str("You are awesome")
  /\ dom.h1 = "You are awesome"
  /\ ~hasRequestedUpdate
  /\ queue = 0

\* C4: TitleBar.properties declares exactly 2 properties (the assertion of
\* the repository's test); the descriptor declares title, darkMode and bar.
C4_TwoTriggerProperties ==
  variant = "title-bar" => Cardinality(DOMAIN properties(variant)) = 2

\* C5: the changes of title, darkMode and bar made since the last render
\* pass, however many, have exactly one update enqueued, and no second render
\* pass follows the one that covers them.
C5_OneRenderPerBatch ==
  /\ burst <= 1
  /\ batch >= 1 => (queue = 1 /\ hasRequestedUpdate)
  /\ batch = 0 => (queue = 0 /\ ~hasRequestedUpdate)

\* A render pass after the first one covered two or more changes.
C5_Witness ==
  /\ renderCount >= 2
  /\ lastBatch >= 2
  /\ burst = 1
  /\ batch = 0

\* bar is null or undefined: the values whose fields cannot be read.
BarUnreadable == bar.t \in {"null", "undefined"}

\* formatter is truthy and no function: format takes it for a formatter, and
\* its call throws.
FormatterUncallable == Truthy(formatter) /\ formatter.t # "function"

\* The fields render() cannot render.
Unrenderable == BarUnreadable \/ FormatterUncallable

\* C6 as stated: every render pass shows the title, darkMode and bar of the
\* moment it runs, and on a connected element every change of them is
\* eventually covered by a render pass.
C6_RenderShowsLatest ==
  /\ [][renderCount' # renderCount =>
          /\ dom'.h1 = HeadingText'
          /\ dom'.style = StyleText'
          /\ Truthy(BarField(This, "title"))' =>
               dom'.title = BarField(This, "title")'.s
          /\ (attr' # Null) <=> Truthy(darkMode')]_vars
  /\ <>[](connected => (batch = 0 /\ ~hasRequestedUpdate))

\* C6 amended: a render pass shows the title, darkMode and bar of the moment
\* it runs unless bar is then null or undefined or formatter is truthy and
\* no function; render() then throws and the pass leaves the DOM as it was.
\* On a connected element every change is
\* eventually covered by a render pass.
C6_RenderShowsLatestUnlessThrown ==
  /\ [][renderCount' # renderCount =>
          /\ Throws <=> Unrenderable
          /\ Throws => dom' = dom
          /\ ~Throws =>
               /\ dom'.h1 = HeadingText'
               /\ dom'.style = StyleText'
               /\ Truthy(BarField(This, "title"))' =>
                    dom'.title = BarField(This, "title")'.s
               /\ (attr' # Null) <=> Truthy(darkMode')]_vars
  /\ <>[](connected => (batch = 0 /\ ~hasRequestedUpdate))

\* The second or a later render pass covered several changes and shows the
\* newly assigned title.
C6_Witness ==
  /\ renderCount >= 2
  /\ lastBatch >= 2
  /\ batch = 0
  /\ title = Str("Hi")
  /\ dom.h1 = "Hi"
  /\ variant = "title-bar-types"

\* C7: on title-bar-types, format(v, {prefix: p, suffix: s}) returns
\* p + f(v) + s when a formatter function f is set and p + v + s when none is
\* (formatter is falsy).
C7_FormatConcatenates ==
  (/\ variant = "title-bar-types"
   /\ lastCall.done
   /\ lastCall.options.given
   /\ lastCall.options.prefix.t = "string"
   /\ lastCall.options.suffix.t = "string"
   /\ (formatter \in Formatters \/ ~Truthy(formatter))) =>
    lastCall.result =
      Str(lastCall.options.prefix.s
          \o (IF formatter \in Formatters
              THEN ToString(CallFormatter(formatter, lastCall.value))
              ELSE ToString(lastCall.value))
          \o lastCall.options.suffix.s)

\* format(12, {prefix: '...', suffix: '!'}) with the formatter of the test.
C7_Witness ==
  /\ variant = "title-bar-types"
  /\ lastCall.done
  /\ formatter = Fn("forReal")
  /\ lastCall.value = Num(12)
  /\ lastCall.options = Options(TRUE, Str("..."), Str("!"))
  /\ lastCall.result = Str("...12 for real!!")

\* C8 as stated: with no formatter and no options, format(v) of either
\* variant returns the string form of v.
C8_FormatReturnsStringForm ==
  (lastCall.done /\ ~lastCall.options.given /\ formatter = Null) =>
    lastCall.result = Str(ToString(lastCall.value))

\* C8 amended: with no formatter and no options, format(v) of
\* title-bar-types returns the string form of v, and format(v) of title-bar
\* returns v itself (a number stays a number).
C8_FormatNoOptions ==
  (lastCall.done /\ ~lastCall.options.given /\ formatter = Null) =>
    IF variant = "title-bar-types"
    THEN lastCall.result = Str(ToString(lastCall.value))
    ELSE lastCall.result = lastCall.value

\* format(12) on a title-bar-types element without formatter.
C8_Witness ==
  /\ variant = "title-bar-types"
  /\ lastCall.done
  /\ ~lastCall.options.given
  /\ formatter = Null
  /\ lastCall.value = Num(12)
  /\ lastCall.result = Str("12")

\* C9: once a render pass has covered the current bar object, the marker's
\* title attribute is bar.title when that is present and the empty string
\* when it is absent.
C9_MarkerTitle ==
  (renderCount >= 1 /\ batch = 0 /\ bar.t = "object") =>
    dom.title = IF barObj.title = Undefined THEN "" ELSE barObj.title.s

\* C10: once the render cycle is complete (no update is requested, and no
\* reflection is left undone by an update whose render() threw), the
\* dark-mode attribute is present exactly when darkMode is truthy.
C10_DarkModeReflected ==
  (~hasRequestedUpdate /\ reflecting = {}) =>
    ((attr # Null) <=> Truthy(darkMode))

\* darkMode = true was reflected: the attribute holds the empty string, which
\* only reflection writes.
C10_Witness ==
  /\ ~hasRequestedUpdate
  /\ darkMode = Bool(TRUE)
  /\ attr = Str("")

\* C11: a change of the dark-mode attribute by the host sets darkMode to true
\* when the attribute is then present and to false when it is then absent,
\* and the update that follows leaves darkMode as it is, the attribute
\* agreeing with it: always when the update renders, and when render() throws
\* if the two agreed before.
C11_AttributeSetsDarkMode ==
  [][/\ (steps' # steps /\ attr' # attr) =>
          darkMode' = Bool(attr' # Null)
     /\ renderCount' # renderCount =>
          /\ darkMode' = darkMode
          /\ (~Throws \/ ((attr # Null) <=> Truthy(darkMode))) =>
               ((attr' # Null) <=> Truthy(darkMode'))
          /\ "darkMode" \notin reflecting => attr' = attr]_vars

\* The host set dark-mode="false" and the update has run: the attribute is
\* still the host's, and darkMode is true.
C11_Witness ==
  /\ renderCount >= 1
  /\ ~hasRequestedUpdate
  /\ attr = Str("false")
  /\ darkMode = Bool(TRUE)

\* C13: a render pass that renders an element whose bar is an object with
\* numbers x and y leaves the marker's style "left: <x>px; top: <y>", the top without
\* unit; for bar = {x: 1, y: 2} that is "left: 1px; top: 2".
C13_MarkerPosition ==
  [][(renderCount' # renderCount /\ bar'.t = "object" /\ ~Throws) =>
       /\ dom'.style = "left: " \o NatToString(barObj'.x.n) \o "px; top: "
                         \o NatToString(barObj'.y.n)
       /\ (barObj'.x = Num(1) /\ barObj'.y = Num(2)) =>
            dom'.style = "left: 1px; top: 2"]_vars

\* The bar of the test, { x: 1, y: 2 }, was assigned and rendered.
C13_Witness ==
  /\ variant = "title-bar-types"
  /\ renderCount >= 2
  /\ batch = 0
  /\ barObj = BarObject(Num(1), Num(2), Undefined)
  /\ dom.style = "left: 1px; top: 2"

\* C14: the first render of a title-bar element that was never assigned to
\* leaves the heading "You are awesome" and a marker with style
\* "left: 0px; top: 0px" and title "I am dot" (the output the README shows).
C14_FirstRender ==
  (variant = "title-bar" /\ steps = 0 /\ renderCount = 1) =>
    dom = Dom("You are awesome", "left: 0px; top: 0px", "I am dot")

\* What the first render does leave: the README's output but for the top,
\* which has no unit.
C14_FirstRenderAsCoded ==
  (variant = "title-bar" /\ steps = 0 /\ renderCount = 1) =>
    dom = Dom("You are awesome", "left: 0px; top: 0", "I am dot")

\* An assignment of any value of the model, of whatever type, leaves exactly
\* that value in the field.
StoresAsGiven ==
  /\ \A v \in TitleValues : AssignTitle(v) => title' = v
  /\ \A v \in DarkModeValues : AssignDarkMode(v) => darkMode' = v
  /\ \A v \in BarPrimitives : AssignBarPrimitive(v) => bar' = v
  /\ \A v \in FormatterValues : AssignFormatter(v) => formatter' = v

\* C15 as stated: every assignment stores exactly the value given, and a
\* render pass shows a title that is no string in its string form.
C15_AnyValueStoredAndShown ==
  [][/\ StoresAsGiven
     /\ (renderCount' # renderCount /\ title'.t # "string") =>
          dom'.h1 = ToString(title')
                      \o (IF formatter' = Fn("forReal") THEN " for real!"
                                                        ELSE "")]_vars

\* C15 amended: every assignment stores exactly the value given and raises
\* nothing; the render pass that follows throws exactly when bar is null or
\* undefined or formatter is truthy and no function, and otherwise shows a
\* title that is no string in its string
\* form, except that title-bar with no formatter called shows nothing for a
\* null or undefined title.
C15_AnyValueStored ==
  [][/\ StoresAsGiven
     /\ (steps' # steps) => (dom' = dom /\ renderCount' = renderCount)
     /\ renderCount' # renderCount =>
          /\ Throws <=> Unrenderable
          /\ (~Throws /\ title'.t # "string") => dom'.h1 = HeadingText']_vars

\* title = true and formatter = false, the type errors of the test and the
\* README, were assigned and rendered.
C15_Witness ==
  /\ title = Bool(TRUE)
  /\ formatter = Bool(FALSE)
  /\ batch = 0
  /\ dom.h1 = "true"

\* C16: a call of format leaves title, darkMode, bar (and the object it
\* refers to) and formatter as they were, requests no update, renders
\* nothing, and touches neither the DOM nor the attribute.
C16_FormatChangesNothing ==
  [][lastCall'.done =>
       /\ UNCHANGED <<title, darkMode, bar, barObj, formatter>>
       /\ UNCHANGED <<hasRequestedUpdate, queue, reflecting, renderCount>>
       /\ UNCHANGED <<dom, attr>>]_vars

\* format('foo') was called with the test's formatter on an element that has
\* rendered and has no update requested.
C16_Witness ==
  /\ lastCall.done
  /\ renderCount >= 1
  /\ ~hasRequestedUpdate
  /\ formatter = Fn("forReal")
  /\ lastCall.value = Str("foo")
  /\ lastCall.options = NoOptions
  /\ lastCall.result = Str("foo for real!")

\* C17: a render pass changes none of title, darkMode, bar and formatter and
\* leaves no update requested, and a connected element ends with no update
\* requested or enqueued.
C17_RenderSettles ==
  /\ [][renderCount' # renderCount =>
          /\ UNCHANGED <<title, darkMode, bar, barObj, formatter>>
          /\ ~hasRequestedUpdate'
          /\ queue' = 0]_vars
  /\ <>[](connected => (queue = 0 /\ ~hasRequestedUpdate))

\* After two or more operations and a second render pass the element is at
\* rest.
C17_Witness ==
  /\ steps >= 2
  /\ renderCount >= 2
  /\ queue = 0
  /\ ~hasRequestedUpdate
  /\ reflecting = {}
  /\ formatter = Fn("forReal")
  /\ dom.h1 = "Hi for real!"

\* C18 as stated: a step that changes formatter leaves the DOM, and so the heading of
\* the previous formatter, as it is; the DOM changes only in a render pass
\* that follows a change of title, darkMode or bar; and that render pass shows
\* the heading of the formatter then set.
C18_StaleHeading ==
  [][/\ formatter' # formatter => dom' = dom
     /\ dom' # dom => (renderCount' # renderCount /\ batch >= 1)
     /\ renderCount' # renderCount => dom'.h1 = HeadingText']_vars

\* C18 amended: as stated, but the render pass shows the heading of the
\* formatter then set only when bar is then neither null nor undefined and
\* formatter is falsy or a function; otherwise render() throws and the stale
\* heading stays.
C18_StaleHeadingUnlessThrown ==
  [][/\ formatter' # formatter => dom' = dom
     /\ dom' # dom => (renderCount' # renderCount /\ batch >= 1)
     /\ renderCount' # renderCount =>
          IF Unrenderable THEN dom' = dom ELSE dom'.h1 = HeadingText']_vars

\* The formatter of the test was rendered and then taken away: the heading
\* still carries its addition, and no update is requested.
C18_Witness ==
  /\ renderCount >= 1
  /\ ~hasRequestedUpdate
  /\ title = Str("Hi")
  /\ formatter = Null
  /\ dom.h1 = "Hi for real!"

\* The string form of what format's formatter step yields for the last call.
FormattedText ==
  IF formatter \in Formatters
  THEN ToString(CallFormatter(formatter, lastCall.value))
  ELSE ToString(lastCall.value)

\* C19: on title-bar-types, format with an options record that has no prefix
\* returns "undefined", the formatted value and the suffix (empty when the
\* record has none); with the options argument omitted the prefix is empty.
\* The formatted value is that of a call of format that returns: formatter is
\* falsy or a function.
C19_NoPrefixDefault ==
  (variant = "title-bar-types" /\ lastCall.done /\ ~FormatterUncallable) =>
    /\ (lastCall.options.given /\ lastCall.options.prefix = Undefined) =>
         lastCall.result =
           Str("undefined" \o FormattedText
               \o (IF lastCall.options.suffix = Undefined THEN ""
                   ELSE lastCall.options.suffix.s))
    /\ ~lastCall.options.given => lastCall.result = Str(FormattedText)

\* format('foo', { suffix: '!' }) without formatter.
C19_Witness ==
  /\ variant = "title-bar-types"
  /\ lastCall.done
  /\ formatter = Null
  /\ lastCall.value = Str("foo")
  /\ lastCall.options = Options(TRUE, Undefined, Str("!"))
  /\ lastCall.result = Str("undefinedfoo!")

\* The DOM of the title-bar element and of the title-bar-types element after
\* a render pass on the fields this step leaves: one of the two is this
\* element's own DOM, the other what its twin renders from the same fields.
TitleBarDom ==
  IF variant = "title-bar" THEN dom' ELSE TitleBar_render(This')
TitleBarTypesDom ==
  IF variant = "title-bar-types" THEN dom' ELSE TitleBarTypes_render(This')

\* The two classes declare the same properties and construct the same fields,
\* so the same operations leave the same fields and request the same updates.
SameDeclarations ==
  /\ properties("title-bar") = properties("title-bar-types")
  /\ constructor("title-bar") = constructor("title-bar-types")

\* render() of the two classes throws on the same fields.
SameThrows ==
  (TitleBar_render(This) = TypeError) <=> (TitleBarTypes_render(This) = TypeError)

\* C20 as stated: at every render pass the two variants show the same heading
\* and the same position, and their marker titles differ only when bar.title
\* is absent or empty.
C20_VariantsEquivalent ==
  [][/\ SameDeclarations
     /\ (renderCount' # renderCount /\ ~Throws) =>
          /\ TitleBarDom.h1 = TitleBarTypesDom.h1
          /\ TitleBarDom.style = TitleBarTypesDom.style
          /\ TitleBarDom.title # TitleBarTypesDom.title =>
               BarField(This', "title") \in {Undefined, Str("")}]_vars

\* C20 amended: the positions agree; the headings agree except for a null or
\* undefined title with no formatter called, which title-bar shows as nothing
\* and title-bar-types in its string form; the marker titles differ only when
\* bar.title is absent, title-bar showing "undefined" and title-bar-types
\* nothing. When bar is null or undefined or formatter is truthy and no
\* function, render() of both throws and both keep the DOM they had.
C20_VariantsEquivalentButNull ==
  [][/\ SameDeclarations
     /\ renderCount' # renderCount =>
          (SameThrows /\ (Throws => (Unrenderable /\ dom' = dom)))
     /\ (renderCount' # renderCount /\ ~Throws) =>
          /\ TitleBarDom.style = TitleBarTypesDom.style
          /\ TitleBarDom.h1 # TitleBarTypesDom.h1 =>
               /\ title'.t \in {"null", "undefined"}
               /\ ~Truthy(formatter')
               /\ TitleBarDom.h1 = ""
               /\ TitleBarTypesDom.h1 = ToString(title')
          /\ TitleBarDom.title # TitleBarTypesDom.title =>
               /\ BarField(This', "title") = Undefined
               /\ TitleBarDom.title = "undefined"
               /\ TitleBarTypesDom.title = ""]_vars

\* A title-bar element rendered the test's bar { x: 1, y: 2 }, whose title is
\* absent, with the test's formatter.
C20_Witness ==
  /\ variant = "title-bar"
  /\ batch = 0
  /\ barObj = BarObject(Num(1), Num(2), Undefined)
  /\ formatter = Fn("forReal")
  /\ dom = Dom("You are awesome for real!", "left: 1px; top: 2", "undefined")

\* C21: an external operation that leaves title, darkMode and bar identical
\* (an assignment of the value the field holds, a change of the bar object in
\* place) renders nothing and requests no update; a render pass shows the
\* position of the bar of that moment unless render() throws, and an element
\* whose one render pass rendered, with no change of title, darkMode or bar
\* since, shows another position than its bar's only after a change in place.
C21_IdenticalValuesScheduleNothing ==
  /\ [][/\ (steps' # steps /\ ~ObservedChange) =>
             /\ renderCount' = renderCount
             /\ hasRequestedUpdate' = hasRequestedUpdate
             /\ queue' = queue
             /\ dom' = dom
        /\ (renderCount' # renderCount /\ ~Throws) =>
             dom'.style = StyleText']_vars
  /\ []((renderCount = 1 /\ dom # NoDom /\ batch = 0 /\ dom.style # StyleText)
          => (bar.t = "object" /\ barObj.x \in {Num(x) : x \in MutatedX}))

\* The element rendered the constructor's bar, bar was then assigned the
\* object it holds and its x was changed in place: no update is requested and
\* the marker is still shown at the old position.
C21_Witness ==
  /\ renderCount = 1
  /\ steps >= 2
  /\ ~hasRequestedUpdate
  /\ queue = 0
  /\ bar = Obj(1)
  /\ barObj = BarObject(Num(3), Num(0), Str("I am dot"))
  /\ dom.style = "left: 0px; top: 0"

====
